---- MODULE Spec2Model ----
(***************************************************************************)
(* Model of src/util/properties.rs: the MVCC properties collector          *)
(* (UserPropertiesCollector), the statistics value (MvccProperties) and    *)
(* its encode/decode into a map of named 8-byte big-endian integers.       *)
(*                                                                         *)
(* A u64 is kept at full width as four 16-bit limbs, most significant      *)
(* first, so that u64::MAX and the 8-byte encoding are the real ones.      *)
(* A byte string (Vec<u8>, &[u8]) is a sequence of numbers in 0..255.      *)
(***************************************************************************)
EXTENDS Integers, Sequences, FiniteSets

\* ------------------------------------------------------------------------
\* Bounds of the model
\* ------------------------------------------------------------------------

\* The number of add calls made on one collector.
MaxAdds == 3

\* The most finish calls on one collector in the runs that call it again.
MaxFinishes == 3

\* ------------------------------------------------------------------------
\* u64 arithmetic (std::u64, std::cmp)
\* ------------------------------------------------------------------------

LimbBase == 65536

Limb == 0 .. (LimbBase - 1)

U64 == [1..4 -> Limb]

\* u64::MAX and u64::MIN
U64_MAX == <<LimbBase - 1, LimbBase - 1, LimbBase - 1, LimbBase - 1>>

U64_MIN == <<0, 0, 0, 0>>

\* The u64 of a small natural number.
U64Of(n) == <<0, 0, n \div LimbBase, n % LimbBase>>

U64Lt(a, b) ==
    \E i \in 1..4 : a[i] < b[i] /\ \A j \in 1..(i - 1) : a[j] = b[j]

U64Le(a, b) == a = b \/ U64Lt(a, b)

cmp_min(a, b) == IF U64Le(a, b) THEN a ELSE b

cmp_max(a, b) == IF U64Le(a, b) THEN b ELSE a

\* a + b on u64, wrapping at 2^64 (what += computes in a release build; the
\* counters of the model stay far below the width).
U64Add(a, b) ==
    LET s4 == a[4] + b[4]
        s3 == a[3] + b[3] + (s4 \div LimbBase)
        s2 == a[2] + b[2] + (s3 \div LimbBase)
        s1 == a[1] + b[1] + (s2 \div LimbBase)
    IN  <<s1 % LimbBase, s2 % LimbBase, s3 % LimbBase, s4 % LimbBase>>

\* x += 1
Inc(x) == U64Add(x, U64Of(1))

\* !x, the bitwise complement
U64Not(x) == [i \in 1..4 |-> (LimbBase - 1) - x[i]]

\* ------------------------------------------------------------------------
\* Byte strings
\* ------------------------------------------------------------------------

\* slice::starts_with
starts_with(s, p) == Len(p) <= Len(s) /\ SubSeq(s, 1, Len(p)) = p

\* ------------------------------------------------------------------------
\* util::codec::number (NumberEncoder, NumberDecoder): fixed 8-byte
\* big-endian integers
\* ------------------------------------------------------------------------

U64_SIZE == 8

ByteBase == 256

encode_u64(v) ==
    << v[1] \div ByteBase, v[1] % ByteBase, v[2] \div ByteBase, v[2] % ByteBase,
       v[3] \div ByteBase, v[3] % ByteBase, v[4] \div ByteBase, v[4] % ByteBase >>

\* Reads the first eight bytes of buf; fails when fewer remain.
number_decode_u64(buf) ==
    IF Len(buf) < U64_SIZE
    THEN [ok |-> FALSE, err |-> "Eof"]
    ELSE [ok |-> TRUE,
          val |-> << buf[1] * ByteBase + buf[2], buf[3] * ByteBase + buf[4],
                     buf[5] * ByteBase + buf[6], buf[7] * ByteBase + buf[8] >>]

\* Descending encoding: the complement, big-endian, so that a larger
\* timestamp sorts first.
encode_u64_desc(v) == encode_u64(U64Not(v))

decode_u64_desc(buf) ==
    LET r == number_decode_u64(buf)
    IN  IF r.ok THEN [ok |-> TRUE, val |-> U64Not(r.val)] ELSE r

\* ------------------------------------------------------------------------
\* External collaborators of the collector
\* ------------------------------------------------------------------------

\* raftstore::store::keys: the data namespace is the keys that start with
\* the data prefix.
DATA_PREFIX == 122

data_key(k) == <<DATA_PREFIX>> \o k

validate_data_key(key) == starts_with(key, <<DATA_PREFIX>>)

\* storage::types::split_encoded_key_on_ts: the last eight bytes are the
\* timestamp in descending encoding, what precedes them is the user key.
split_encoded_key_on_ts(key) ==
    IF Len(key) < U64_SIZE
    THEN [ok |-> FALSE, err |-> "KeyLength"]
    ELSE LET pos == Len(key) - U64_SIZE
         IN  [ok |-> TRUE,
              k  |-> SubSeq(key, 1, pos),
              ts |-> decode_u64_desc(SubSeq(key, pos + 1, Len(key))).val]

\* Key::append_ts
append_ts(k, ts) == k \o encode_u64_desc(ts)

\* util::codec::bytes::encode_bytes, the encoding of a raw key by Key::from_raw:
\* groups of eight bytes, the last one padded, each followed by a marker that
\* tells how many bytes of the group are padding.
ENC_GROUP_SIZE == 8

ENC_MARKER == 255

ENC_PAD == 0

RECURSIVE encode_bytes(_)
encode_bytes(key) ==
    IF Len(key) >= ENC_GROUP_SIZE
    THEN SubSeq(key, 1, ENC_GROUP_SIZE) \o <<ENC_MARKER>>
             \o encode_bytes(SubSeq(key, ENC_GROUP_SIZE + 1, Len(key)))
    ELSE LET pad == ENC_GROUP_SIZE - Len(key)
         IN  key \o [i \in 1..pad |-> ENC_PAD] \o <<ENC_MARKER - pad>>

\* storage::mvcc::Write: one flag byte for the write type, then the start
\* timestamp as a var-int (seven bits per byte, the high bit set on every
\* byte but the last), then an optional short value.
FLAG_PUT == 80

FLAG_DELETE == 68

FLAG_LOCK == 76

FLAG_ROLLBACK == 82

VarIntCont == 128

WriteType_from_u8(b) ==
    IF b = FLAG_PUT THEN "Put"
    ELSE IF b = FLAG_DELETE THEN "Delete"
    ELSE IF b = FLAG_LOCK THEN "Lock"
    ELSE IF b = FLAG_ROLLBACK THEN "Rollback"
    ELSE "None"

\* TRUE when the bytes of b from position 2 on start with a complete var-int.
has_var_u64(b) ==
    \E i \in 2..Len(b) :
        /\ i <= 11
        /\ b[i] < VarIntCont
        /\ \A j \in 2..(i - 1) : b[j] >= VarIntCont

Write_parse(b) ==
    IF b = <<>> THEN [ok |-> FALSE, err |-> "BadFormatWrite"]
    ELSE IF WriteType_from_u8(b[1]) = "None" THEN [ok |-> FALSE, err |-> "BadFormatWrite"]
    ELSE IF ~has_var_u64(b) THEN [ok |-> FALSE, err |-> "Codec"]
    ELSE [ok |-> TRUE, write_type |-> WriteType_from_u8(b[1])]

\* Write::new(write_type, ts, None).to_bytes() for a timestamp below 128.
Write_to_bytes(write_type, ts) ==
    << (CASE write_type = "Put" -> FLAG_PUT
          [] write_type = "Delete" -> FLAG_DELETE
          [] write_type = "Lock" -> FLAG_LOCK
          [] OTHER -> FLAG_ROLLBACK),
       ts >>

\* ------------------------------------------------------------------------
\* MvccProperties
\* ------------------------------------------------------------------------

PROP_NUM_ERRORS == "tikv.num_errors"

PROP_MIN_TS == "tikv.min_ts"

PROP_MAX_TS == "tikv.max_ts"

PROP_NUM_ROWS == "tikv.num_rows"

PROP_NUM_PUTS == "tikv.num_puts"

PROP_NUM_VERSIONS == "tikv.num_versions"

PROP_MAX_ROW_VERSIONS == "tikv.max_row_versions"

\* Mutant of MvccProperties_new: the derived Default, every field 0.
MvccProperties_default ==
    [min_ts |-> U64Of(0),
     max_ts |-> U64Of(0),
     num_rows |-> U64Of(0),
     num_puts |-> U64Of(0),
     num_versions |-> U64Of(0),
     max_row_versions |-> U64Of(0)]

MvccProperties_new ==
    [min_ts |-> U64_MAX,
     max_ts |-> U64_MIN,
     num_rows |-> U64Of(0),
     num_puts |-> U64Of(0),
     num_versions |-> U64Of(0),
     max_row_versions |-> U64Of(0)]

\* a + b on u64 leaves the width.
U64Overflows(a, b) ==
    LET s4 == a[4] + b[4]
        s3 == a[3] + b[3] + (s4 \div LimbBase)
        s2 == a[2] + b[2] + (s3 \div LimbBase)
        s1 == a[1] + b[1] + (s2 \div LimbBase)
    IN  s1 >= LimbBase

\* Mutant of MvccProperties_add: max_row_versions is taken from other.
MvccProperties_add_last_max(self, other, overflow_checks) ==
    IF /\ overflow_checks
       /\ \/ U64Overflows(self.num_rows, other.num_rows)
          \/ U64Overflows(self.num_puts, other.num_puts)
          \/ U64Overflows(self.num_versions, other.num_versions)
    THEN [ok |-> FALSE, err |-> "overflow"]
    ELSE [ok |-> TRUE,
          val |-> [min_ts |-> cmp_min(self.min_ts, other.min_ts),
                   max_ts |-> cmp_max(self.max_ts, other.max_ts),
                   num_rows |-> U64Add(self.num_rows, other.num_rows),
                   num_puts |-> U64Add(self.num_puts, other.num_puts),
                   num_versions |-> U64Add(self.num_versions, other.num_versions),
                   max_row_versions |-> other.max_row_versions]]

\* MvccProperties::add, the merge of other into self.  A += that leaves the
\* width panics in a build with overflow checks and wraps in one without.
MvccProperties_add(self, other, overflow_checks) ==
    IF /\ overflow_checks
       /\ \/ U64Overflows(self.num_rows, other.num_rows)
          \/ U64Overflows(self.num_puts, other.num_puts)
          \/ U64Overflows(self.num_versions, other.num_versions)
    THEN [ok |-> FALSE, err |-> "overflow"]
    ELSE [ok |-> TRUE,
          val |-> [min_ts |-> cmp_min(self.min_ts, other.min_ts),
                   max_ts |-> cmp_max(self.max_ts, other.max_ts),
                   num_rows |-> U64Add(self.num_rows, other.num_rows),
                   num_puts |-> U64Add(self.num_puts, other.num_puts),
                   num_versions |-> U64Add(self.num_versions, other.num_versions),
                   max_row_versions |->
                       cmp_max(self.max_row_versions, other.max_row_versions)]]

\* x.add(y) where x, or y, is itself the outcome of a merge: a panic of the
\* inner merge is the outcome of the whole.
merge_result(x, y, overflow_checks) ==
    IF ~x.ok THEN x
    ELSE IF ~y.ok THEN y
    ELSE MvccProperties_add(x.val, y.val, overflow_checks)

Ok(v) == [ok |-> TRUE, val |-> v]

\* Mutant of encode_items: max_ts is stored under the name of min_ts.
encode_items_same_name(self) ==
    << <<PROP_MIN_TS, self.min_ts>>,
       <<PROP_MIN_TS, self.max_ts>>,
       <<PROP_NUM_ROWS, self.num_rows>>,
       <<PROP_NUM_PUTS, self.num_puts>>,
       <<PROP_NUM_VERSIONS, self.num_versions>>,
       <<PROP_MAX_ROW_VERSIONS, self.max_row_versions>> >>

\* The (name, value) items of encode, in the order of the source.
encode_items(self) ==
    << <<PROP_MIN_TS, self.min_ts>>,
       <<PROP_MAX_TS, self.max_ts>>,
       <<PROP_NUM_ROWS, self.num_rows>>,
       <<PROP_NUM_PUTS, self.num_puts>>,
       <<PROP_NUM_VERSIONS, self.num_versions>>,
       <<PROP_MAX_ROW_VERSIONS, self.max_row_versions>> >>

\* Collecting (key, value) pairs into a HashMap: a later pair replaces an
\* earlier one under the same key.
collect_map(pairs) ==
    [k \in {pairs[i][1] : i \in DOMAIN pairs} |->
        LET last == CHOOSE i \in DOMAIN pairs :
                        /\ pairs[i][1] = k
                        /\ \A j \in DOMAIN pairs : pairs[j][1] = k => j <= i
        IN  pairs[last][2]]

encode(self) ==
    LET items == encode_items(self)
    IN  collect_map([i \in DOMAIN items |-> <<items[i][1], encode_u64(items[i][2])>>])

\* Mutant of decode_u64: a name that is absent reads as 0.
decode_u64_or_zero(props, k) ==
    IF k \in DOMAIN props
    THEN number_decode_u64(props[k])
    ELSE [ok |-> TRUE, val |-> U64_MIN]

\* DecodeU64 for HashMap<Vec<u8>, Vec<u8>>
decode_u64(props, k) ==
    IF k \in DOMAIN props
    THEN number_decode_u64(props[k])
    ELSE [ok |-> FALSE, err |-> "KeyNotFound"]

\* The names decode reads, in order, with the field each is stored in.
decode_fields ==
    << <<PROP_MIN_TS, "min_ts">>,
       <<PROP_MAX_TS, "max_ts">>,
       <<PROP_NUM_ROWS, "num_rows">>,
       <<PROP_NUM_PUTS, "num_puts">>,
       <<PROP_NUM_VERSIONS, "num_versions">>,
       <<PROP_MAX_ROW_VERSIONS, "max_row_versions">> >>

\* decode after the first i - 1 fields were read into res: each try! returns
\* the error of the first read that fails.
RECURSIVE decode_from(_, _, _)
decode_from(props, res, i) ==
    IF i > Len(decode_fields) THEN [ok |-> TRUE, val |-> res]
    ELSE LET r == decode_u64(props, decode_fields[i][1])
         IN  IF ~r.ok THEN r
             ELSE decode_from(props, [res EXCEPT ![decode_fields[i][2]] = r.val], i + 1)

decode(props) == decode_from(props, MvccProperties_new, 1)

\* ------------------------------------------------------------------------
\* UserPropertiesCollector
\* ------------------------------------------------------------------------

UserPropertiesCollector_new ==
    [mvcc |-> MvccProperties_new,
     last_key |-> <<>>,
     num_errors |-> U64Of(0),
     row_versions |-> U64Of(0)]

\* Mutant of track_ts: only the lower end takes in ts.
track_ts_min_only(mvcc, ts) == [mvcc EXCEPT !.min_ts = cmp_min(@, ts)]

\* The timestamp range takes in ts.
track_ts(mvcc, ts) ==
    [mvcc EXCEPT !.min_ts = cmp_min(@, ts), !.max_ts = cmp_max(@, ts)]

\* Mutant of count_version: the version is not counted.
count_version_skipped(mvcc) == mvcc

\* An entry of type Put is one more version.
count_version(mvcc) == [mvcc EXCEPT !.num_versions = Inc(@)]

\* Mutant of track_row: the running count of a new row starts at 0.
track_row_from_zero(self, k) ==
    LET s == IF ~starts_with(self.last_key, k)
             THEN [self EXCEPT !.mvcc.num_rows = Inc(@), !.row_versions = U64Of(0)]
             ELSE [self EXCEPT !.row_versions = Inc(@)]
    IN  IF U64Lt(s.mvcc.max_row_versions, s.row_versions)
        THEN [s EXCEPT !.mvcc.max_row_versions = s.row_versions]
        ELSE s

\* Row boundary: a new row when the previous key does not start with k.
track_row(self, k) ==
    LET s == IF ~starts_with(self.last_key, k)
             THEN [self EXCEPT !.mvcc.num_rows = Inc(@), !.row_versions = U64Of(1)]
             ELSE [self EXCEPT !.row_versions = Inc(@)]
    IN  IF U64Lt(s.mvcc.max_row_versions, s.row_versions)
        THEN [s EXCEPT !.mvcc.max_row_versions = s.row_versions]
        ELSE s

\* Mutant of count_put: a value that does not parse is not counted as an
\* error.
count_put_silent(self, value) ==
    LET v == Write_parse(value)
    IN  IF ~v.ok THEN self
        ELSE IF v.write_type = "Put" THEN [self EXCEPT !.mvcc.num_puts = Inc(@)]
        ELSE self

\* Mutant of count_put: every write record is counted as a put.
count_put_any_type(self, value) ==
    LET v == Write_parse(value)
    IN  IF ~v.ok THEN [self EXCEPT !.num_errors = Inc(@)]
        ELSE [self EXCEPT !.mvcc.num_puts = Inc(@)]

\* The value is parsed as a write record; a Put is counted.
count_put(self, value) ==
    LET v == Write_parse(value)
    IN  IF ~v.ok THEN [self EXCEPT !.num_errors = Inc(@)]
        ELSE IF v.write_type = "Put" THEN [self EXCEPT !.mvcc.num_puts = Inc(@)]
        ELSE self

\* Mutant of collect_mvcc_properties: a key that does not split is not
\* counted as an error.
collect_mvcc_properties_silent(self, key, value, entry_type) ==
    LET r == split_encoded_key_on_ts(key)
    IN  IF ~r.ok THEN self
        ELSE LET s1 == [self EXCEPT !.mvcc = track_ts(@, r.ts)]
             IN  IF entry_type # "Put" THEN s1
                 ELSE count_put(track_row([s1 EXCEPT !.mvcc = count_version(@)], r.k),
                                value)

\* Mutant of collect_mvcc_properties: the timestamp range takes in only the
\* entries of type Put.
collect_mvcc_properties_ts_late(self, key, value, entry_type) ==
    LET r == split_encoded_key_on_ts(key)
    IN  IF ~r.ok THEN [self EXCEPT !.num_errors = Inc(@)]
        ELSE IF entry_type # "Put" THEN self
        ELSE LET s1 == [self EXCEPT !.mvcc = track_ts(@, r.ts)]
             IN  count_put(track_row([s1 EXCEPT !.mvcc = count_version(@)], r.k),
                           value)

\* Mutant of collect_mvcc_properties: the value is parsed before the version
\* is counted, and a value that does not parse ends the call.
collect_mvcc_properties_parse_first(self, key, value, entry_type) ==
    LET r == split_encoded_key_on_ts(key)
    IN  IF ~r.ok THEN [self EXCEPT !.num_errors = Inc(@)]
        ELSE LET s1 == [self EXCEPT !.mvcc = track_ts(@, r.ts)]
             IN  IF entry_type # "Put" THEN s1
                 ELSE IF ~Write_parse(value).ok
                 THEN [s1 EXCEPT !.num_errors = Inc(@)]
                 ELSE count_put(track_row([s1 EXCEPT !.mvcc = count_version(@)], r.k),
                                value)

collect_mvcc_properties(self, key, value, entry_type) ==
    LET r == split_encoded_key_on_ts(key)
    IN  IF ~r.ok THEN [self EXCEPT !.num_errors = Inc(@)]
        ELSE LET s1 == [self EXCEPT !.mvcc = track_ts(@, r.ts)]
             IN  IF entry_type # "Put" THEN s1
                 ELSE count_put(track_row([s1 EXCEPT !.mvcc = count_version(@)], r.k),
                                value)

\* Mutant of add: the key is remembered before it is validated.
add_remember_first(self, key, value, entry_type) ==
    IF ~validate_data_key(key)
    THEN [self EXCEPT !.num_errors = Inc(@), !.last_key = key]
    ELSE [collect_mvcc_properties(self, key, value, entry_type)
              EXCEPT !.last_key = key]

\* Mutant of add: the key is remembered only when the entry was counted as
\* a version.
add_remember_counted(self, key, value, entry_type) ==
    IF ~validate_data_key(key) THEN [self EXCEPT !.num_errors = Inc(@)]
    ELSE IF split_encoded_key_on_ts(key).ok /\ entry_type = "Put"
    THEN [collect_mvcc_properties(self, key, value, entry_type)
              EXCEPT !.last_key = key]
    ELSE collect_mvcc_properties(self, key, value, entry_type)

\* TablePropertiesCollector::add
add(self, key, value, entry_type) ==
    IF ~validate_data_key(key) THEN [self EXCEPT !.num_errors = Inc(@)]
    ELSE [collect_mvcc_properties(self, key, value, entry_type)
              EXCEPT !.last_key = key]

\* Mutant of finish_self: finish hands the statistics over and starts anew.
finish_self_reset(self) == UserPropertiesCollector_new

\* The collector after finish: the call encodes self.mvcc and assigns
\* nothing.
finish_self(self) == self

\* Mutant of Box_new: the collector already on the heap is handed out again.
Box_shared(heap, v) ==
    IF heap = <<>> THEN [heap |-> <<v>>, ptr |-> 1]
    ELSE [heap |-> heap, ptr |-> 1]

\* Box::new: v is put in a new place of the heap.
Box_new(heap, v) == [heap |-> Append(heap, v), ptr |-> Len(heap) + 1]

\* Mutant of finish: the error count is in the map too.
finish_with_errors(self) ==
    LET m == encode(self.mvcc)
    IN  [n \in DOMAIN m \cup {PROP_NUM_ERRORS} |->
            IF n = PROP_NUM_ERRORS THEN encode_u64(self.num_errors) ELSE m[n]]

\* TablePropertiesCollector::finish
finish(self) == encode(self.mvcc)

\* PropertiesFlags
MVCC_PROPERTIES == 1

\* UserPropertiesCollectorFactory: it holds the flags and nothing else, and
\* makes a new collector at every call.
UserPropertiesCollectorFactory_new(flags) == [flags |-> flags]

create_table_properties_collector(factory) == UserPropertiesCollector_new

\* ------------------------------------------------------------------------
\* Inputs
\* ------------------------------------------------------------------------

\* Raw user keys "a" and "b".
UserKeys == { <<97>>, <<98>> }

Timestamps == { U64Of(1), U64Of(2) }

DataKeys == { data_key(append_ts(u, ts)) : u \in UserKeys, ts \in Timestamps }

\* A key of another namespace (it starts with "t"), long enough to split.
ForeignKey == <<116>> \o append_ts(<<97>>, U64Of(1))

\* A key of the data namespace that is too short to hold a timestamp.
ShortKey == data_key(<<97>>)

Keys == DataKeys \cup {ForeignKey, ShortKey}

\* A Put record, a Delete record, and the empty value, which is no record.
Values == { Write_to_bytes("Put", 1), Write_to_bytes("Delete", 1), <<>> }

\* DBEntryType
EntryTypes == { "Put", "Delete" }

\* The value of an entry that is no Put is never read: one value that parses
\* and one that does not stand for all of them.
ValuesOf(entry_type) ==
    IF entry_type = "Put" THEN Values ELSE { Write_to_bytes("Put", 1), <<>> }

Entries ==
    UNION { [key : Keys, value : ValuesOf(t), entry_type : {t}] : t \in EntryTypes }

U64Samples == { U64_MIN, U64Of(1), <<258, 772, 1286, 1800>>, U64_MAX }

StatsSamples ==
    [min_ts : U64Samples, max_ts : U64Samples, num_rows : U64Samples,
     num_puts : U64Samples, num_versions : U64Samples,
     max_row_versions : U64Samples]

\* ------------------------------------------------------------------------
\* State
\* ------------------------------------------------------------------------

VARIABLES
    collector,  \* the UserPropertiesCollector
    ret,        \* what the latest call on the collector returned
    hist,       \* the entries given to add so far, in order
    prev,       \* the collector as it was before the latest add
    stats,      \* codec: the MvccProperties to encode
    props,      \* codec: the encoded map
    decoded,    \* codec: the result of decode
    codec_pc,   \* codec: "start", "encoded" or "decoded"
    feed,       \* reference run: the entries the table builder will give
    mrg,        \* merge: the operands, the build and the outcomes
    fleet,      \* two file builds: the collectors made by one factory
    log         \* repeated finish: what each finish call returned, and when

vars ==
    <<collector, ret, hist, prev, stats, props, decoded, codec_pc, feed, mrg, fleet,
      log>>

collector_vars == <<collector, ret, hist, prev>>

codec_vars == <<stats, props, decoded, codec_pc>>

aux_vars == <<feed, mrg, fleet, log>>

Unit == [call |-> "none", props |-> <<>>]

NoResult == [ok |-> FALSE, err |-> "NotCalled"]

CollectorInit ==
    /\ collector = UserPropertiesCollector_new
    /\ ret = Unit
    /\ hist = <<>>
    /\ prev = UserPropertiesCollector_new

CodecStart ==
    /\ props = <<>>
    /\ decoded = NoResult
    /\ codec_pc = "start"

\* A merge of three values not yet made.
MergeOf(a, b, c, overflow_checks) ==
    [a |-> a, b |-> b, c |-> c, overflow_checks |-> overflow_checks,
     left |-> NoResult, right |-> NoResult, ab |-> NoResult, ba |-> NoResult]

NoMerge == MergeOf(MvccProperties_new, MvccProperties_new, MvccProperties_new, FALSE)

\* The two files being built.
Files == {"f1", "f2"}

\* One factory and no collector made yet: an empty heap, and for each file
\* no handle (0), nothing given and nothing returned.
NoFleet ==
    [factory |-> UserPropertiesCollectorFactory_new(MVCC_PROPERTIES),
     heap |-> <<>>,
     handle |-> [f \in Files |-> 0],
     hists |-> [f \in Files |-> <<>>],
     rets |-> [f \in Files |-> Unit]]

AuxIdle ==
    /\ feed = <<>>
    /\ mrg = NoMerge
    /\ fleet = NoFleet
    /\ log = <<>>

Init ==
    /\ CollectorInit
    /\ stats = MvccProperties_new
    /\ CodecStart
    /\ AuxIdle

\* One add call of the table builder.
Add(e) ==
    /\ Len(hist) < MaxAdds
    /\ collector' = add(collector, e.key, e.value, e.entry_type)
    /\ ret' = [call |-> "add", props |-> <<>>]
    /\ hist' = Append(hist, e)
    /\ prev' = collector
    /\ UNCHANGED codec_vars
    /\ UNCHANGED aux_vars

\* The finish call of the table builder.
Finish ==
    /\ ret' = [call |-> "finish", props |-> finish(collector)]
    /\ collector' = finish_self(collector)
    /\ UNCHANGED <<hist, prev>>
    /\ UNCHANGED codec_vars
    /\ UNCHANGED aux_vars

Next ==
    \/ \E e \in Entries : Add(e)
    \/ Finish

Spec == Init /\ [][Next]_vars

\* ------------------------------------------------------------------------
\* The codec on its own: encode, then decode, of any MvccProperties
\* ------------------------------------------------------------------------

CodecInit ==
    /\ CollectorInit
    /\ stats \in StatsSamples
    /\ CodecStart
    /\ AuxIdle

Encode ==
    /\ codec_pc = "start"
    /\ props' = encode(stats)
    /\ codec_pc' = "encoded"
    /\ UNCHANGED <<stats, decoded>>
    /\ UNCHANGED collector_vars
    /\ UNCHANGED aux_vars

Decode ==
    /\ codec_pc = "encoded"
    /\ decoded' = decode(props)
    /\ codec_pc' = "decoded"
    /\ UNCHANGED <<stats, props>>
    /\ UNCHANGED collector_vars
    /\ UNCHANGED aux_vars

CodecNext == Encode \/ Decode

CodecSpec == CodecInit /\ [][CodecNext]_vars

\* ------------------------------------------------------------------------
\* Decoding a map that is not what encode made: names removed, values cut
\* ------------------------------------------------------------------------

LossySamples ==
    { MvccProperties_new,
      [min_ts |-> U64Of(1), max_ts |-> U64Of(7), num_rows |-> U64Of(4),
       num_puts |-> U64Of(4), num_versions |-> U64Of(7),
       max_row_versions |-> U64Of(3)] }

LossyInit ==
    /\ CollectorInit
    /\ stats \in LossySamples
    /\ CodecStart
    /\ AuxIdle

\* The map loses the name n.
Drop(n) ==
    /\ codec_pc = "encoded"
    /\ n \in DOMAIN props
    /\ props' = [k \in DOMAIN props \ {n} |-> props[k]]
    /\ UNCHANGED <<stats, decoded, codec_pc>>
    /\ UNCHANGED collector_vars
    /\ UNCHANGED aux_vars

\* The value under the name n loses its last byte.
Cut(n) ==
    /\ codec_pc = "encoded"
    /\ n \in DOMAIN props
    /\ Len(props[n]) = U64_SIZE
    /\ props' = [props EXCEPT ![n] = SubSeq(@, 1, U64_SIZE - 1)]
    /\ UNCHANGED <<stats, decoded, codec_pc>>
    /\ UNCHANGED collector_vars
    /\ UNCHANGED aux_vars

LossyNext ==
    \/ Encode
    \/ \E n \in DOMAIN props : Drop(n)
    \/ \E n \in DOMAIN props : Cut(n)
    \/ Decode

LossySpec == LossyInit /\ [][LossyNext]_vars

\* ------------------------------------------------------------------------
\* The reference run: entries of test_mvcc_properties_collector given in
\* order to a collector, then finish, then decode of what finish returned
\* ------------------------------------------------------------------------

\* (raw key, timestamp, write type, entry type) of the test: "ab", "cd",
\* "ef" and "gh".
TestCases ==
    << << <<97, 98>>, 2, "Put", "Put" >>,
       << <<97, 98>>, 1, "Delete", "Put" >>,
       << <<97, 98>>, 1, "Delete", "Delete" >>,
       << <<99, 100>>, 5, "Delete", "Put" >>,
       << <<99, 100>>, 4, "Put", "Put" >>,
       << <<99, 100>>, 3, "Put", "Put" >>,
       << <<101, 102>>, 6, "Put", "Put" >>,
       << <<101, 102>>, 6, "Put", "Delete" >>,
       << <<103, 104>>, 7, "Delete", "Put" >> >>

\* The entry the test makes of a case.
TestEntry(case) ==
    [key |-> data_key(append_ts(encode_bytes(case[1]), U64Of(case[2]))),
     value |-> Write_to_bytes(case[3], case[2]),
     entry_type |-> case[4]]

TestFeed == [i \in DOMAIN TestCases |-> TestEntry(TestCases[i])]

\* The entries of TestFeed at the positions in S, in their order.
SubFeed(S) ==
    [j \in 1..Cardinality(S) |->
        TestFeed[CHOOSE i \in S : Cardinality({k \in S : k < i}) = j - 1]]

RefInit ==
    /\ collector = create_table_properties_collector(
                       UserPropertiesCollectorFactory_new(MVCC_PROPERTIES))
    /\ ret = Unit
    /\ hist = <<>>
    /\ prev = UserPropertiesCollector_new
    /\ stats = MvccProperties_new
    /\ CodecStart
    /\ feed \in { SubFeed(S) : S \in SUBSET DOMAIN TestFeed }
    /\ mrg = NoMerge
    /\ fleet = NoFleet
    /\ log = <<>>

\* The table builder gives the next entry of the feed.
RefAdd ==
    /\ Len(hist) < Len(feed)
    /\ LET e == feed[Len(hist) + 1]
       IN  /\ collector' = add(collector, e.key, e.value, e.entry_type)
           /\ hist' = Append(hist, e)
    /\ ret' = [call |-> "add", props |-> <<>>]
    /\ prev' = collector
    /\ UNCHANGED codec_vars
    /\ UNCHANGED aux_vars

\* The table builder is done with the file.
RefFinish ==
    /\ Len(hist) = Len(feed)
    /\ ret.call # "finish"
    /\ Finish

\* A reader decodes what finish returned.
RefDecode ==
    /\ ret.call = "finish"
    /\ decoded = NoResult
    /\ decoded' = decode(ret.props)
    /\ UNCHANGED <<stats, props, codec_pc>>
    /\ UNCHANGED collector_vars
    /\ UNCHANGED aux_vars

RefNext == RefAdd \/ RefFinish \/ RefDecode

RefSpec == RefInit /\ [][RefNext]_vars

\* ------------------------------------------------------------------------
\* Repeated finish: finish called at any point of a feed, and again
\* ------------------------------------------------------------------------

ReuseFinish ==
    /\ Len(log) < MaxFinishes
    /\ ret' = [call |-> "finish", props |-> finish(collector)]
    /\ collector' = finish_self(collector)
    /\ log' = Append(log, [at |-> Len(hist), props |-> finish(collector)])
    /\ UNCHANGED <<hist, prev>>
    /\ UNCHANGED codec_vars
    /\ UNCHANGED <<feed, mrg, fleet>>

ReuseNext == RefAdd \/ ReuseFinish

ReuseSpec == RefInit /\ [][ReuseNext]_vars

\* ------------------------------------------------------------------------
\* Two files: one factory makes a collector for each
\* ------------------------------------------------------------------------

\* A put of row "a", a non-insert entry of row "b", and a key of another
\* namespace.
FleetEntries ==
    { [key |-> data_key(append_ts(<<97>>, U64Of(2))),
       value |-> Write_to_bytes("Put", 1), entry_type |-> "Put"],
      [key |-> data_key(append_ts(<<98>>, U64Of(1))),
       value |-> Write_to_bytes("Put", 1), entry_type |-> "Delete"],
      [key |-> ForeignKey,
       value |-> Write_to_bytes("Put", 1), entry_type |-> "Put"] }

\* The table builder of file f asks the factory for a collector.
FleetCreate(f) ==
    /\ fleet.handle[f] = 0
    /\ LET b == Box_new(fleet.heap,
                        create_table_properties_collector(fleet.factory))
       IN  fleet' = [fleet EXCEPT !.heap = b.heap, !.handle[f] = b.ptr]
    /\ UNCHANGED <<feed, mrg, log>>
    /\ UNCHANGED collector_vars
    /\ UNCHANGED codec_vars

\* The table builder of file f gives an entry to its collector.
FleetAdd(f, e) ==
    /\ fleet.handle[f] # 0
    /\ Len(fleet.hists[f]) < MaxAdds
    /\ fleet' = [fleet EXCEPT
                    !.heap[fleet.handle[f]] = add(@, e.key, e.value, e.entry_type),
                    !.hists[f] = Append(@, e),
                    !.rets[f] = [call |-> "add", props |-> <<>>]]
    /\ UNCHANGED <<feed, mrg, log>>
    /\ UNCHANGED collector_vars
    /\ UNCHANGED codec_vars

\* The table builder of file f is done.
FleetFinish(f) ==
    /\ fleet.handle[f] # 0
    /\ fleet' = [fleet EXCEPT
                    !.heap[fleet.handle[f]] = finish_self(@),
                    !.rets[f] = [call |-> "finish",
                                 props |-> finish(fleet.heap[fleet.handle[f]])]]
    /\ UNCHANGED <<feed, mrg, log>>
    /\ UNCHANGED collector_vars
    /\ UNCHANGED codec_vars

FleetNext ==
    \/ \E f \in Files : FleetCreate(f)
    \/ \E f \in Files, e \in FleetEntries : FleetAdd(f, e)
    \/ \E f \in Files : FleetFinish(f)

FleetSpec == Init /\ [][FleetNext]_vars

\* ------------------------------------------------------------------------
\* Merge: three MvccProperties merged in both groupings and both orders
\* ------------------------------------------------------------------------

\* Values of several files: the fresh value and values with small and with
\* large counters, one of which carries between limbs when added to itself.
MergeSamples ==
    {MvccProperties_new} \cup
    [min_ts : {U64Of(1), U64Of(3)},
     max_ts : {U64Of(3), U64Of(5)},
     num_rows : {U64Of(1), U64_MAX},
     num_puts : {U64Of(1)},
     num_versions : {<<0, 0, LimbBase - 1, LimbBase - 1>>},
     max_row_versions : {U64Of(1), U64Of(2)}]

MergeInit ==
    /\ CollectorInit
    /\ stats = MvccProperties_new
    /\ CodecStart
    /\ feed = <<>>
    /\ fleet = NoFleet
    /\ log = <<>>
    /\ mrg \in { MergeOf(a, b, c, oc) :
                     a \in MergeSamples, b \in MergeSamples, c \in MergeSamples,
                     oc \in BOOLEAN }

\* a.add(b) then .add(c), and a.add(b) on its own.
MergeLeft ==
    /\ mrg.left = NoResult
    /\ LET oc == mrg.overflow_checks
           ab == MvccProperties_add(mrg.a, mrg.b, oc)
       IN  mrg' = [mrg EXCEPT !.ab = ab,
                              !.left = merge_result(ab, Ok(mrg.c), oc)]
    /\ UNCHANGED <<feed, fleet, log>>
    /\ UNCHANGED collector_vars
    /\ UNCHANGED codec_vars

\* b.add(c) merged into a, and b.add(a) on its own.
MergeRight ==
    /\ mrg.right = NoResult
    /\ LET oc == mrg.overflow_checks
           bc == MvccProperties_add(mrg.b, mrg.c, oc)
       IN  mrg' = [mrg EXCEPT !.ba = MvccProperties_add(mrg.b, mrg.a, oc),
                              !.right = merge_result(Ok(mrg.a), bc, oc)]
    /\ UNCHANGED <<feed, fleet, log>>
    /\ UNCHANGED collector_vars
    /\ UNCHANGED codec_vars

MergeNext == MergeLeft \/ MergeRight

MergeSpec == MergeInit /\ [][MergeNext]_vars

\* ------------------------------------------------------------------------
\* What a feed of entries contains, computed from the entries alone
\* ------------------------------------------------------------------------

\* The latest entry given to add.
LastEntry == hist[Len(hist)]

\* Bytewise order of keys, the order of the table builder.
BytesLe(a, b) ==
    \/ starts_with(b, a)
    \/ \E i \in 1..Len(a) :
           /\ i <= Len(b)
           /\ a[i] < b[i]
           /\ \A j \in 1..(i - 1) : a[j] = b[j]

\* The feed h is in ascending key order.
Ascending(h) == \A i \in 1..(Len(h) - 1) : BytesLe(h[i].key, h[i + 1].key)

\* A feed as the table builder makes it from well-formed entries: ascending,
\* every key of the data namespace and with a timestamp, every value of an
\* insert-kind entry a write record.
WellFormedFeed(h) ==
    /\ Ascending(h)
    /\ \A i \in DOMAIN h :
           /\ validate_data_key(h[i].key)
           /\ split_encoded_key_on_ts(h[i].key).ok
           /\ h[i].entry_type = "Put" => Write_parse(h[i].value).ok

\* The key of e passes namespace validation and splits.
KeyOk(e) == validate_data_key(e.key) /\ split_encoded_key_on_ts(e.key).ok

UserKeyOf(e) == split_encoded_key_on_ts(e.key).k

\* e is an insert-kind entry whose key passed validation and splitting.
IsVersion(e) == KeyOk(e) /\ e.entry_type = "Put"

\* The user keys with at least one such entry in h.
RowsOf(h) == { UserKeyOf(h[i]) : i \in { j \in DOMAIN h : IsVersion(h[j]) } }

\* How many such entries of h belong to the user key k.
VersionsOf(h, k) ==
    Cardinality({ i \in DOMAIN h : IsVersion(h[i]) /\ UserKeyOf(h[i]) = k })

\* The most versions any single user key has in h; 0 when there is none.
MostVersions(h) ==
    IF RowsOf(h) = {} THEN 0
    ELSE CHOOSE n \in 1..Len(h) :
             /\ \E k \in RowsOf(h) : VersionsOf(h, k) = n
             /\ \A k \in RowsOf(h) : VersionsOf(h, k) <= n

\* h without its non-insert-kind entries.
InsertOnly(h) == SelectSeq(h, LAMBDA e : e.entry_type = "Put")

\* The collector after the feed h on a fresh collector.
RECURSIVE Run(_)
Run(h) ==
    IF h = <<>> THEN UserPropertiesCollector_new
    ELSE LET e == h[Len(h)]
         IN  add(Run(SubSeq(h, 1, Len(h) - 1)), e.key, e.value, e.entry_type)

\* The errors an add call can hit, by the place where it hits them.
HitsNamespaceError(e) == ~validate_data_key(e.key)

HitsSplitError(e) == validate_data_key(e.key) /\ ~split_encoded_key_on_ts(e.key).ok

HitsValueError(e) == IsVersion(e) /\ ~Write_parse(e.value).ok

\* ------------------------------------------------------------------------
\* Claims
\* ------------------------------------------------------------------------

\* C1: after any sequence of add calls on a fresh collector, whatever the
\* keys, values and entry kinds, num_puts <= num_versions.
TheoremC1 == U64Le(collector.mvcc.num_puts, collector.mvcc.num_versions)

\* A put has been counted, next to a version that is no put.
WitnessC1 ==
    /\ collector.mvcc.num_puts = U64Of(1)
    /\ collector.mvcc.num_versions = U64Of(2)

\* C2: after any sequence of add calls, whenever num_rows > 0 the timestamp
\* range is not inverted: min_ts <= max_ts.
TheoremC2 ==
    U64Lt(U64Of(0), collector.mvcc.num_rows)
        => U64Le(collector.mvcc.min_ts, collector.mvcc.max_ts)

\* Rows were counted and two different timestamps were seen.
WitnessC2 ==
    /\ U64Lt(U64Of(0), collector.mvcc.num_rows)
    /\ U64Lt(collector.mvcc.min_ts, collector.mvcc.max_ts)

\* C3: after any sequence of add calls, max_row_versions >= 1 whenever
\* num_rows > 0.
TheoremC3 ==
    U64Lt(U64Of(0), collector.mvcc.num_rows)
        => U64Le(U64Of(1), collector.mvcc.max_row_versions)

\* Two rows were counted and none has more than one version.
WitnessC3 ==
    /\ collector.mvcc.num_rows = U64Of(2)
    /\ collector.mvcc.max_row_versions = U64Of(1)

\* C4: for every feed in ascending key order, num_rows equals the number of
\* distinct user keys that have at least one insert-kind entry whose key
\* passed namespace validation and splitting.  Stated here for the feeds in
\* which nothing is malformed, which are among the feeds of the claim.
ClaimC4 ==
    WellFormedFeed(hist) => collector.mvcc.num_rows = U64Of(Cardinality(RowsOf(hist)))

\* C5: for every feed in ascending key order, max_row_versions equals the
\* largest number of insert-kind entries (with a key that passed validation
\* and splitting) of any single user key.  Stated here for the feeds in which
\* nothing is malformed, which are among the feeds of the claim.
ClaimC5 ==
    WellFormedFeed(hist) => collector.mvcc.max_row_versions = U64Of(MostVersions(hist))

\* C6, as claimed: an add call that hits a skippable per-entry error (bad
\* namespace, unsplittable key, unparseable value) increments num_errors by
\* one and changes none of the six statistics.
ClaimC6 ==
    (/\ hist # <<>>
     /\ \/ HitsNamespaceError(LastEntry)
        \/ HitsSplitError(LastEntry)
        \/ HitsValueError(LastEntry))
        => /\ collector.num_errors = Inc(prev.num_errors)
           /\ collector.mvcc = prev.mvcc

\* C6, amended: an add call that hits a skippable per-entry error increments
\* num_errors by one.  After a namespace or key split failure none of the six
\* statistics has changed.  After a value parse failure num_puts has not
\* changed, and the entry has been counted everywhere else: num_versions is
\* one more, min_ts and max_ts take in the timestamp of the key, num_rows is
\* the same or one more and max_row_versions is at least what it was.
TheoremC6 ==
    hist # <<>> =>
        /\ (HitsNamespaceError(LastEntry) \/ HitsSplitError(LastEntry))
               => /\ collector.num_errors = Inc(prev.num_errors)
                  /\ collector.mvcc = prev.mvcc
        /\ HitsValueError(LastEntry)
               => LET ts == split_encoded_key_on_ts(LastEntry.key).ts
                  IN  /\ collector.num_errors = Inc(prev.num_errors)
                      /\ collector.mvcc.num_puts = prev.mvcc.num_puts
                      /\ collector.mvcc.num_versions = Inc(prev.mvcc.num_versions)
                      /\ collector.mvcc.min_ts = cmp_min(prev.mvcc.min_ts, ts)
                      /\ collector.mvcc.max_ts = cmp_max(prev.mvcc.max_ts, ts)
                      /\ collector.mvcc.num_rows
                             \in {prev.mvcc.num_rows, Inc(prev.mvcc.num_rows)}
                      /\ U64Le(prev.mvcc.max_row_versions,
                               collector.mvcc.max_row_versions)

\* The latest add hit a value parse failure on the first version of a row,
\* after a put had been counted.
WitnessC6 ==
    /\ hist # <<>>
    /\ HitsValueError(LastEntry)
    /\ prev.mvcc.num_puts = U64Of(1)
    /\ collector.mvcc.num_rows = Inc(prev.mvcc.num_rows)

\* C7: an add call whose key fails namespace validation increments num_errors
\* by exactly one and leaves the rest of the collector as it was: the six
\* statistics, the running same-row count and the remembered previous key.
TheoremC7 ==
    (hist # <<>> /\ HitsNamespaceError(LastEntry))
        => collector = [prev EXCEPT !.num_errors = Inc(@)]

\* A key of another namespace came after a counted version.
WitnessC7 ==
    /\ hist # <<>>
    /\ HitsNamespaceError(LastEntry)
    /\ prev.last_key # <<>>
    /\ prev.row_versions = U64Of(1)
    /\ collector.num_errors = U64Of(1)

\* A byte string.
IsBytes(b) == b \in Seq(0 .. (ByteBase - 1))

\* The call returned: c is a collector, every field a value of its type.
Returns(c) ==
    /\ DOMAIN c = {"mvcc", "last_key", "num_errors", "row_versions"}
    /\ c.mvcc \in [min_ts : U64, max_ts : U64, num_rows : U64, num_puts : U64,
                   num_versions : U64, max_row_versions : U64]
    /\ IsBytes(c.last_key)
    /\ c.num_errors \in U64
    /\ c.row_versions \in U64

\* The call returned a map: byte strings under names.
Mapped(m) == DOMAIN m # {} /\ \A k \in DOMAIN m : IsBytes(m[k])

\* An entry with something malformed in it: the key or the value.
Malformed(e) ==
    \/ HitsNamespaceError(e)
    \/ HitsSplitError(e)
    \/ ~Write_parse(e.value).ok

\* C8, as claimed: every malformed input (namespace-invalid key, unsplittable
\* key, unparseable value, whatever the entry kind) is reflected by num_errors
\* being incremented.
ClaimC8 ==
    (hist # <<>> /\ Malformed(LastEntry))
        => collector.num_errors = Inc(prev.num_errors)

\* C8, amended: no add or finish call is fatal: every add call, whatever its
\* (key, value, kind), returns and leaves a collector, and every finish call
\* returns a map.  Every
\* namespace-invalid key, every unsplittable key and every unparseable value
\* of an insert-kind entry whose key passed validation and splitting
\* increments num_errors by one; the value of a non-insert-kind entry is
\* never parsed, so an unparseable value there leaves num_errors as it was.
TheoremC8 ==
    /\ Returns(collector)
    /\ ret.call = "finish" => Mapped(ret.props)
    /\ hist # <<>> =>
           /\ ( \/ HitsNamespaceError(LastEntry)
                \/ HitsSplitError(LastEntry)
                \/ HitsValueError(LastEntry) )
                  => collector.num_errors = Inc(prev.num_errors)
           /\ (KeyOk(LastEntry) /\ LastEntry.entry_type # "Put")
                  => collector.num_errors = prev.num_errors

\* Three malformed inputs in a row were absorbed, one of each kind, and
\* finish was then accepted.
WitnessC8 ==
    /\ Len(hist) = 3
    /\ HitsNamespaceError(hist[1])
    /\ HitsSplitError(hist[2])
    /\ HitsValueError(hist[3])
    /\ collector.num_errors = U64Of(3)
    /\ ret.call = "finish"

\* C9: for every feed in ascending key order, num_rows, num_puts,
\* num_versions and max_row_versions are those of the same feed with the
\* non-insert-kind entries removed.  Stated here for the feeds in which
\* nothing is malformed, which are among the feeds of the claim.
ClaimC9 ==
    WellFormedFeed(hist) =>
        LET alone == Run(InsertOnly(hist)).mvcc
        IN  /\ collector.mvcc.num_rows = alone.num_rows
            /\ collector.mvcc.num_puts = alone.num_puts
            /\ collector.mvcc.num_versions = alone.num_versions
            /\ collector.mvcc.max_row_versions = alone.max_row_versions

\* C10: decode(encode(s)) succeeds and equals s in all six fields, for every
\* MvccProperties s with 64-bit fields.
TheoremC10 ==
    codec_pc = "decoded" => decoded.ok /\ decoded.val = stats

\* The round trip was made on a value with u64::MAX, zero and a number with
\* eight different bytes in its fields.
WitnessC10 ==
    /\ codec_pc = "decoded"
    /\ stats.min_ts = U64_MAX
    /\ stats.max_ts = U64_MIN
    /\ stats.num_rows = <<258, 772, 1286, 1800>>
    /\ decoded.ok

\* A u64 below 2^16, as a number.
IsSmall(x) == x[1] = 0 /\ x[2] = 0 /\ x[3] = 0

\* C11: merge is associative and commutative on all six fields: merging a, b
\* and c gives the same outcome in both groupings, and a with b the same as b
\* with a; min_ts is the minimum, max_ts and max_row_versions the maximum,
\* num_rows, num_puts and num_versions the sum.
TheoremC11 ==
    /\ (mrg.left # NoResult /\ mrg.right # NoResult) => mrg.left = mrg.right
    /\ (mrg.ab # NoResult /\ mrg.ba # NoResult) => mrg.ab = mrg.ba
    /\ (mrg.ab # NoResult /\ mrg.ab.ok) =>
           LET a == mrg.a
               b == mrg.b
               m == mrg.ab.val
           IN  /\ m.min_ts \in {a.min_ts, b.min_ts}
               /\ U64Le(m.min_ts, a.min_ts) /\ U64Le(m.min_ts, b.min_ts)
               /\ m.max_ts \in {a.max_ts, b.max_ts}
               /\ U64Le(a.max_ts, m.max_ts) /\ U64Le(b.max_ts, m.max_ts)
               /\ m.max_row_versions \in {a.max_row_versions, b.max_row_versions}
               /\ U64Le(a.max_row_versions, m.max_row_versions)
               /\ U64Le(b.max_row_versions, m.max_row_versions)
               /\ \A f \in {"num_rows", "num_puts", "num_versions"} :
                      /\ (IsSmall(a[f]) /\ IsSmall(b[f]))
                             => m[f] = <<0, 0, 0, a[f][4] + b[f][4]>>
                      /\ a[f] = U64Of(0) => m[f] = b[f]
                      /\ b[f] = U64Of(0) => m[f] = a[f]

\* Three different values were merged in both groupings, with a carry in
\* num_versions, and both groupings gave a value.
WitnessC11 ==
    /\ mrg.left # NoResult /\ mrg.right # NoResult
    /\ mrg.left.ok
    /\ mrg.a # mrg.b /\ mrg.b # mrg.c /\ mrg.a # mrg.c
    /\ mrg.a.min_ts = U64Of(3) /\ mrg.c.min_ts = U64Of(1)
    /\ mrg.left.val.num_versions = <<0, 2, LimbBase - 1, LimbBase - 3>>
    /\ mrg.left.val.num_rows = U64Of(3)

\* The six property names, in the order in which decode reads them.
SixNames ==
    << "tikv.min_ts", "tikv.max_ts", "tikv.num_rows", "tikv.num_puts",
       "tikv.num_versions", "tikv.max_row_versions" >>

\* Some of the six names is absent from the map m.
LacksName(m) == \E i \in 1..6 : SixNames[i] \notin DOMAIN m

\* The first name, in reading order, that m lacks or holds with fewer than
\* eight bytes.
FirstUnreadable(m) ==
    CHOOSE i \in 1..6 :
        /\ SixNames[i] \notin DOMAIN m \/ Len(m[SixNames[i]]) < 8
        /\ \A j \in 1..(i - 1) :
               SixNames[j] \in DOMAIN m /\ Len(m[SixNames[j]]) >= 8

\* C12, as claimed: decoding a map that lacks one of the six names, whatever
\* else it contains, fails with KeyNotFound.
ClaimC12 ==
    (codec_pc = "decoded" /\ LacksName(props))
        => decoded = [ok |-> FALSE, err |-> "KeyNotFound"]

\* C12, amended: decoding a map that lacks one of the six names fails and
\* yields no MvccProperties, whichever name is absent.  The failure is
\* KeyNotFound unless a name read before the first absent one holds a value
\* of fewer than eight bytes: then it is the decode error of that value.
TheoremC12 ==
    (codec_pc = "decoded" /\ LacksName(props)) =>
        /\ ~decoded.ok
        /\ DOMAIN decoded = {"ok", "err"}
        /\ decoded.err =
               IF SixNames[FirstUnreadable(props)] \notin DOMAIN props
               THEN "KeyNotFound" ELSE "Eof"

\* Only the name read last was absent, every other value whole, and decode
\* failed with KeyNotFound.
WitnessC12 ==
    /\ codec_pc = "decoded"
    /\ DOMAIN props = { SixNames[i] : i \in 1..5 }
    /\ \A i \in 1..5 : Len(props[SixNames[i]]) = 8
    /\ stats.num_rows = U64Of(4)
    /\ decoded = [ok |-> FALSE, err |-> "KeyNotFound"]

\* C13: the nine entries of the reference test, given in order to a fresh
\* collector, then finish and decode, yield min_ts = 1, max_ts = 7,
\* num_rows = 4, num_puts = 4, num_versions = 7, max_row_versions = 3.
TheoremC13 ==
    (feed = TestFeed /\ decoded # NoResult) =>
        /\ decoded.ok
        /\ decoded.val.min_ts = <<0, 0, 0, 1>>
        /\ decoded.val.max_ts = <<0, 0, 0, 7>>
        /\ decoded.val.num_rows = <<0, 0, 0, 4>>
        /\ decoded.val.num_puts = <<0, 0, 0, 4>>
        /\ decoded.val.num_versions = <<0, 0, 0, 7>>
        /\ decoded.val.max_row_versions = <<0, 0, 0, 3>>

\* All nine entries were given, finish was called and its map decoded.
WitnessC13 ==
    /\ feed = TestFeed
    /\ Len(hist) = 9
    /\ hist = feed
    /\ ret.call = "finish"
    /\ decoded # NoResult
    /\ decoded.ok

\* C14: a collector made by the factory and finished with no add call
\* decodes to num_rows = 0, num_puts = 0, num_versions = 0,
\* max_row_versions = 0, min_ts = 2^64 - 1 and max_ts = 0.
TheoremC14 ==
    (hist = <<>> /\ feed = <<>> /\ decoded # NoResult) =>
        /\ decoded.ok
        /\ decoded.val.min_ts = <<65535, 65535, 65535, 65535>>
        /\ decoded.val.max_ts = <<0, 0, 0, 0>>
        /\ decoded.val.num_rows = <<0, 0, 0, 0>>
        /\ decoded.val.num_puts = <<0, 0, 0, 0>>
        /\ decoded.val.num_versions = <<0, 0, 0, 0>>
        /\ decoded.val.max_row_versions = <<0, 0, 0, 0>>
        /\ ret.props["tikv.min_ts"] = <<255, 255, 255, 255, 255, 255, 255, 255>>

\* finish was called on the fresh collector and its map decoded.
WitnessC14 ==
    /\ hist = <<>>
    /\ feed = <<>>
    /\ ret.call = "finish"
    /\ decoded # NoResult
    /\ decoded.ok

\* C15: finish returns a map of exactly six entries, under the six names of
\* the statistics, each value 8 bytes long; num_errors is never in the map.
TheoremC15 ==
    ret.call = "finish" =>
        /\ DOMAIN ret.props =
               {"tikv.min_ts", "tikv.max_ts", "tikv.num_rows",
                "tikv.num_puts", "tikv.num_versions", "tikv.max_row_versions"}
        /\ Cardinality(DOMAIN ret.props) = 6
        /\ \A n \in DOMAIN ret.props : IsBytes(ret.props[n]) /\ Len(ret.props[n]) = 8
        /\ "tikv.num_errors" \notin DOMAIN ret.props

\* finish was called on a collector that has counted errors.
WitnessC15 ==
    /\ ret.call = "finish"
    /\ U64Lt(U64Of(1), collector.num_errors)
    /\ IsBytes(ret.props["tikv.num_rows"])

\* The timestamp of the key of e.
TsOf(e) == split_encoded_key_on_ts(e.key).ts

\* The timestamps of the entries of h whose key passed validation and
\* splitting.
TimestampsOf(h) == { TsOf(h[i]) : i \in { j \in DOMAIN h : KeyOk(h[j]) } }

\* C17: min_ts and max_ts are the least and the greatest timestamp over all
\* the entries whose key passed namespace validation and splitting, whatever
\* their kind and whether or not their value parsed.
TheoremC17 ==
    LET T == TimestampsOf(hist)
    IN  IF T = {}
        THEN /\ collector.mvcc.min_ts = U64_MAX
             /\ collector.mvcc.max_ts = U64_MIN
        ELSE /\ collector.mvcc.min_ts \in T
             /\ collector.mvcc.max_ts \in T
             /\ \A t \in T : /\ U64Le(collector.mvcc.min_ts, t)
                             /\ U64Le(t, collector.mvcc.max_ts)

\* The least timestamp came with a non-insert entry and the greatest with an
\* insert-kind entry whose value did not parse.
WitnessC17 ==
    /\ Len(hist) = 2
    /\ KeyOk(hist[1]) /\ hist[1].entry_type = "Delete"
    /\ HitsValueError(hist[2])
    /\ collector.mvcc.min_ts = TsOf(hist[1])
    /\ collector.mvcc.max_ts = TsOf(hist[2])
    /\ U64Lt(collector.mvcc.min_ts, collector.mvcc.max_ts)

\* The insert-kind entries of h with a good key whose value is a Put record.
PutsOf(h) ==
    { i \in DOMAIN h : /\ IsVersion(h[i])
                       /\ Write_parse(h[i].value).ok
                       /\ Write_parse(h[i].value).write_type = "Put" }

\* C18: num_versions is the number of insert-kind entries whose key passed
\* validation and splitting, those whose value did not parse included;
\* num_puts is the number of those whose value parsed as a Put.  An
\* insert-kind entry whose value does not parse adds one to num_versions and
\* one to num_errors, and leaves num_puts.
TheoremC18 ==
    /\ collector.mvcc.num_versions =
           U64Of(Cardinality({ i \in DOMAIN hist : IsVersion(hist[i]) }))
    /\ collector.mvcc.num_puts = U64Of(Cardinality(PutsOf(hist)))
    /\ (hist # <<>> /\ HitsValueError(LastEntry)) =>
           /\ collector.mvcc.num_versions = Inc(prev.mvcc.num_versions)
           /\ collector.num_errors = Inc(prev.num_errors)
           /\ collector.mvcc.num_puts = prev.mvcc.num_puts

\* A value that did not parse came after a put: two versions, one put, one
\* error.
WitnessC18 ==
    /\ Len(hist) = 2
    /\ HitsValueError(LastEntry)
    /\ collector.mvcc.num_versions = U64Of(2)
    /\ collector.mvcc.num_puts = U64Of(1)
    /\ collector.num_errors = U64Of(1)

\* C19: after every add call whose key passed namespace validation, the
\* remembered previous key is the full key of that call, whatever happened
\* in the call: a split failure, a non-insert kind, a value that did not
\* parse, or a counted version.
TheoremC19 ==
    (ret.call = "add" /\ validate_data_key(LastEntry.key))
        => collector.last_key = LastEntry.key

\* Three calls in a row were remembered: a key that did not split, then a
\* non-insert entry, then a value that did not parse.
WitnessC19 ==
    /\ Len(hist) = 3
    /\ ret.call = "add"
    /\ HitsSplitError(hist[1])
    /\ KeyOk(hist[2]) /\ hist[2].entry_type = "Delete"
    /\ HitsValueError(hist[3])
    /\ prev.last_key = hist[2].key
    /\ collector.last_key = hist[3].key

\* C16: two collectors made by the same factory share no mutable state:
\* each is a place of its own, its state is what its own add calls made of
\* a fresh collector, and its finish returns the statistics of its own
\* entries only.
TheoremC16 ==
    \A f \in Files :
        fleet.handle[f] # 0 =>
            /\ fleet.heap[fleet.handle[f]] = Run(fleet.hists[f])
            /\ fleet.rets[f].call = "finish" =>
                   fleet.rets[f].props = finish(Run(fleet.hists[f]))
            /\ \A g \in Files \ {f} : fleet.handle[g] # fleet.handle[f]

\* Both files have a collector, each was given entries the other was not,
\* and both were finished with different maps.
WitnessC16 ==
    /\ \A f \in Files : /\ fleet.handle[f] # 0
                        /\ fleet.hists[f] # <<>>
                        /\ fleet.rets[f].call = "finish"
    /\ Len(fleet.hists["f1"]) # Len(fleet.hists["f2"])
    /\ fleet.rets["f1"].props # fleet.rets["f2"].props

\* C20: finish only reads: the collector is after finish as it was before,
\* a second finish returns the same map as the first, and after add, finish,
\* add, finish the second map holds the statistics of all the add calls.
TheoremC20 ==
    /\ collector = Run(hist)
    /\ \A i \in DOMAIN log :
           log[i].props = finish(Run(SubSeq(hist, 1, log[i].at)))
    /\ \A i \in DOMAIN log, j \in DOMAIN log :
           log[i].at = log[j].at => log[i].props = log[j].props
    /\ ret.call = "finish" => ret.props = finish(Run(hist))

\* add, finish, finish, add, finish: the two first maps are equal and the
\* third counts both entries.
WitnessC20 ==
    /\ Len(log) = 3
    /\ Len(hist) = 2
    /\ log[1].at = 1
    /\ log[2].at = 1
    /\ log[3].at = 2
    /\ log[1].props = log[2].props
    /\ log[3].props # log[2].props
    /\ log[3].props["tikv.num_versions"] = encode_u64(U64Of(2))

====
